---- MODULE Spec2Model ----
(***************************************************************************)
(* A model of let-run/lego's Vault-backed storage and HTTP-01 responder:   *)
(*   - the Challenge Responder (http01.ProviderServer),                    *)
(*   - the Certificate Store   (cmd.CertificatesStorage, build tag vault), *)
(*   - the Account Store       (cmd.AccountsStorage, build tag vault).     *)
(* The three components share no state; each has a specification of its    *)
(* own (SpecResponder, SpecCerts, SpecAccounts) and Spec composes them.    *)
(***************************************************************************)
EXTENDS Naturals, Sequences, FiniteSets, TLC

VARIABLES
    \* ---- Challenge Responder (ProviderServer) ----
    port,          \* s.port
    boundPort,     \* the port s.listener is bound on
    listener,      \* "open" | "closed": state of s.listener
    servePc,       \* the goroutine of NewProviderServer: "serving" | "sending" | "exited"
    driverPc,      \* the caller of Present/CleanUp: "idle" | "waitDone"
    cleanUps,      \* number of CleanUp calls that have returned
    pending,       \* sequence of `go s.serve(domain, token, keyAuth)` not yet run
    mux,           \* s.mux: the token routes registered so far (the "/" route is always there)
    crashed,       \* the process died of a panic in a goroutine
    conns,         \* accepted connections whose request is not answered yet
    response,      \* what a client saw last: a response or a refused connection
    \* ---- backing store (Vault) ----
    vault,         \* path -> stored secret data, or Nil
    \* ---- Certificate Store ----
    lastSave,      \* domain -> the last SaveResource call for it, or Nil
    certRet,       \* the last Certificate Store call and its outcome
    \* ---- Account Store ----
    acctRet,       \* the last Account Store call and its outcome
    keyCalls       \* the GetPrivateKey calls that returned, in order

responderVars == <<port, boundPort, listener, servePc, driverPc, cleanUps, pending,
                   mux, crashed, conns, response>>
certVars == <<lastSave, certRet>>
acctVars == <<acctRet, keyCalls>>
storeVars == <<vault, certVars, acctVars>>
vars == <<responderVars, vault, certVars, acctVars>>

Nil == [kind |-> "nil"]

(***************************************************************************)
(* Bounds of the model.                                                    *)
(***************************************************************************)
MaxPresents == 2
MaxConns == 1
MaxKeyCalls == 2
MaxKeyMaterial == 2

(***************************************************************************)
(*                          CHALLENGE RESPONDER                            *)
(***************************************************************************)

\* Host names and domains are strings, modelled as sequences of characters:
\* "e" "x" stands for example.com, "e" "x" "z" for example.com.evil.org and
\* "o" "t" for other.org.
ExampleCom == <<"e", "x">>
ExampleComEvil == <<"e", "x", "z">>
OtherOrg == <<"o", "t">>
Ports == {"", "5002"}

\* The challenge sessions a driver presents: (domain, token, keyAuth).
Sessions ==
    {[domain |-> ExampleCom, token |-> "tok1", keyAuth |-> "key1"],
     [domain |-> OtherOrg, token |-> "tok1", keyAuth |-> "key2"],
     [domain |-> OtherOrg, token |-> "tok2", keyAuth |-> "key3"]}

\* strings.HasPrefix(s, prefix)
HasPrefix(s, prefix) ==
    /\ Len(prefix) <= Len(s)
    /\ SubSeq(s, 1, Len(prefix)) = prefix

\* ChallengePath(token): the well-known ACME challenge path of a token.
ChallengePath(token) == <<".well-known", "acme-challenge", token>>

RootPath == <<>>

\* The requests clients send: path, Host header, method.
Requests ==
    {[path |-> ChallengePath("tok1"), host |-> ExampleCom, method |-> "GET"],
     [path |-> ChallengePath("tok1"), host |-> ExampleCom, method |-> "POST"],
     [path |-> ChallengePath("tok1"), host |-> ExampleComEvil, method |-> "GET"],
     [path |-> ChallengePath("tok1"), host |-> OtherOrg, method |-> "GET"],
     [path |-> ChallengePath("tok2"), host |-> OtherOrg, method |-> "GET"],
     [path |-> ChallengePath("tok2"), host |-> ExampleCom, method |-> "GET"],
     [path |-> RootPath, host |-> ExampleCom, method |-> "GET"]}

\* s.GetAddress(): net.JoinHostPort(s.iface, s.port); the interface is fixed here.
GetAddress == [iface |-> "127.0.0.1", port |-> port]

\* net.Listen("tcp", addr): an empty port is port 0, which the system replaces
\* by a free port of its choice.
ListenPort(p) == IF p = "" THEN "ephemeral" ELSE p

\* What a client saw last: nothing yet, a refused connection, or a response.
NoResponse ==
    [kind |-> "none", path |-> <<>>, host |-> <<>>, method |-> "", route |-> "",
     domain |-> <<>>, keyAuth |-> "", status |-> 0, body |-> "", late |-> FALSE]

\* NewProviderServer(iface, port), the bind having succeeded: the listener is
\* open, the "/" route is registered and the goroutine runs httpServer.Serve.
NewProviderServer ==
    /\ port \in Ports
    /\ boundPort = ListenPort(port)
    /\ listener = "open"
    /\ servePc = "serving"
    /\ driverPc = "idle"
    /\ cleanUps = 0
    /\ pending = <<>>
    /\ mux = {}
    /\ crashed = FALSE
    /\ conns = {}
    /\ response = NoResponse

\* Present(domain, token, keyAuth): defaults the port, spawns s.serve, returns.
Present(domain, token, keyAuth) ==
    /\ ~crashed
    /\ driverPc = "idle"
    /\ Len(pending) + Cardinality(mux) < MaxPresents
    /\ port' = IF port = "" THEN "80" ELSE port
    /\ pending' = Append(pending, [domain |-> domain, token |-> token, keyAuth |-> keyAuth])
    /\ UNCHANGED storeVars
    /\ UNCHANGED <<boundPort, listener, servePc, driverPc, cleanUps, mux, crashed,
                   conns, response>>

Remove(seq, i) == SubSeq(seq, 1, i - 1) \o SubSeq(seq, i + 1, Len(seq))

Registered(path) == \E h \in mux : h.path = path

\* The pattern serve registers the session's handler under.
RoutePattern(token) == ChallengePath(token)

\* s.serve(domain, token, keyAuth), run by the goroutine Present spawned:
\* s.mux.HandleFunc(path, handler). http.ServeMux panics on a pattern that is
\* already registered, and a panic in a goroutine ends the process.
serve(i) ==
    /\ ~crashed
    /\ i \in 1..Len(pending)
    /\ LET p == pending[i]
           path == RoutePattern(p.token)
       IN  /\ pending' = Remove(pending, i)
           /\ IF Registered(path)
              THEN /\ crashed' = TRUE
                   /\ mux' = mux
              ELSE /\ crashed' = FALSE
                   /\ mux' = mux \cup {[path |-> path, domain |-> p.domain,
                                        keyAuth |-> p.keyAuth]}
    /\ UNCHANGED storeVars
    /\ UNCHANGED <<port, boundPort, listener, servePc, driverPc, cleanUps, conns,
                   response>>

\* Whether httpServer.Serve accepts a connection: it does while it runs its
\* accept loop on an open listener.
Accepting == listener = "open" /\ servePc = "serving"

\* A client dials the bound address and sends one request (keep-alives are
\* disabled: one request per connection). httpServer.Serve accepts it and
\* hands it to a goroutine of its own; a closed listener refuses it. `late`
\* records that the connection came after a CleanUp had returned.
Connect(req) ==
    /\ ~crashed
    /\ Cardinality(conns) < MaxConns
    /\ IF Accepting
       THEN /\ conns' = conns \cup {[req |-> req, late |-> cleanUps > 0]}
            /\ response' = response
       ELSE /\ response' = [NoResponse EXCEPT !.kind = "refused", !.path = req.path,
                                               !.host = req.host, !.method = req.method,
                                               !.late = cleanUps > 0]
            /\ conns' = conns
    /\ UNCHANGED storeVars
    /\ UNCHANGED <<port, boundPort, listener, servePc, driverPc, cleanUps, pending,
                   mux, crashed>>

\* The condition of the handler s.serve registers.
HandlerMatchesAnyMethod(host, method, domain) == HasPrefix(host, domain)

HandlerMatches(host, method, domain) ==
    HasPrefix(host, domain) /\ method = "GET"

\* The mux's dispatch of a request and the handler's answer: the token route's
\* handler when the path is registered, else the "/" handler.
Answer(c) ==
    IF Registered(c.req.path)
    THEN LET h == CHOOSE h \in mux : h.path = c.req.path
         IN  [kind |-> "response", path |-> c.req.path, host |-> c.req.host,
              method |-> c.req.method, route |-> "token", domain |-> h.domain,
              keyAuth |-> h.keyAuth, status |-> 200,
              body |-> IF HandlerMatches(c.req.host, c.req.method, h.domain)
                       THEN h.keyAuth ELSE "TEST",
              late |-> c.late]
    ELSE [kind |-> "response", path |-> c.req.path, host |-> c.req.host,
          method |-> c.req.method, route |-> "/", domain |-> <<>>, keyAuth |-> "",
          status |-> 200, body |-> "OK", late |-> c.late]

\* The connection's goroutine serves its request; it runs whether or not
\* Serve has returned meanwhile. A failed w.Write delivers nothing.
Handle(c, writeOk) ==
    /\ ~crashed
    /\ c \in conns
    /\ conns' = conns \ {c}
    /\ response' = IF writeOk THEN Answer(c) ELSE response
    /\ UNCHANGED storeVars
    /\ UNCHANGED <<port, boundPort, listener, servePc, driverPc, cleanUps, pending,
                   mux, crashed>>

\* httpServer.Serve returns once the listener is closed; the goroutine then
\* blocks on `s.done <- true` (the channel is unbuffered).
ServeReturn ==
    /\ ~crashed
    /\ servePc = "serving"
    /\ listener = "closed"
    /\ servePc' = "sending"
    /\ UNCHANGED storeVars
    /\ UNCHANGED <<port, boundPort, listener, driverPc, cleanUps, pending, mux,
                   crashed, conns, response>>

\* CleanUp, first half: s.listener is not nil after NewProviderServer, so
\* s.listener.Close(); the caller then blocks on `<-s.done`.
CleanUpClose ==
    /\ ~crashed
    /\ driverPc = "idle"
    /\ listener' = "closed"
    /\ driverPc' = "waitDone"
    /\ UNCHANGED storeVars
    /\ UNCHANGED <<port, boundPort, servePc, cleanUps, pending, mux, crashed, conns,
                   response>>

\* `<-s.done` can proceed when the serve goroutine is at `s.done <- true`.
DoneReadyNoWait == TRUE

DoneReady == servePc = "sending"

\* CleanUp, second half: the rendezvous on s.done, then return nil. The serve
\* goroutine ends after its send.
CleanUpReturn ==
    /\ ~crashed
    /\ driverPc = "waitDone"
    /\ DoneReady
    /\ servePc' = IF servePc = "sending" THEN "exited" ELSE servePc
    /\ driverPc' = "idle"
    /\ cleanUps' = cleanUps + 1
    /\ UNCHANGED storeVars
    /\ UNCHANGED <<port, boundPort, listener, pending, mux, crashed, conns, response>>

ResponderNext ==
    \/ \E s \in Sessions : Present(s.domain, s.token, s.keyAuth)
    \/ \E i \in 1..MaxPresents : serve(i)
    \/ \E r \in Requests : Connect(r)
    \/ \E c \in conns, w \in BOOLEAN : Handle(c, w)
    \/ ServeReturn
    \/ CleanUpClose
    \/ CleanUpReturn

(***************************************************************************)
(*                         BACKING STORE (VAULT)                           *)
(***************************************************************************)

\* The store is path-addressable: Logical().Write(path, data) replaces the
\* entry at path, Logical().Read(path) returns the entry, or a nil response
\* and no error when there is none. Either call may fail with an error, and
\* so may s.Client.Get(); those outcomes are the actions' inputs (getOk,
\* readOk, writeOk).
CertDomains == {"d1", "d2"}
UserID == "u1"
Emails == {"u1", "u2"}

CertsPath(domain) == <<"secret/data/fabio/certs", domain>>
JsonPathFixed(domain) == <<"secret/data/fabio/json", "d1">>
JsonPath(domain) == <<"secret/data/fabio/json", domain>>
AccountPath(id) == <<"secret/data/fabio/account", id>>
PrivateKeyPath(id) == <<"secret/data/fabio/private_key", id>>

VaultPaths ==
    {CertsPath(d) : d \in CertDomains} \cup {JsonPath(d) : d \in CertDomains}
    \cup {AccountPath(e) : e \in Emails} \cup {PrivateKeyPath(UserID)}

EmptyVault == [p \in VaultPaths |-> Nil]

\* Logical().Read(path) when it does not fail: the response, Nil when absent.
Read(v, path) == v[path]

\* Logical().Write(path, data) when it does not fail.
Write(v, path, data) == [v EXCEPT ![path] = data]

(***************************************************************************)
(*                          CERTIFICATE STORE                              *)
(***************************************************************************)

Certificates == {"crtA", "crtB"}
PrivateKeys == {"keyA"}
Issuers == {"issA"}
CertURLs == {"url1"}
Extensions == {".crt", ".key", ".issuer.crt"}

\* certificate.Resource
Resources ==
    [Domain : CertDomains, CertURL : CertURLs, Certificate : Certificates,
     PrivateKey : PrivateKeys, IssuerCertificate : Issuers]

\* encoding/json writes a []byte as a base64 string and reads it back.
Base64(b) == <<"base64", b>>
UnBase64(s) == s[2]

\* json.MarshalIndent(certRes, "", "\t"): the metadata document.
MarshalResource(r) ==
    [kind |-> "json", type |-> "Resource", domain |-> r.Domain, certUrl |-> r.CertURL,
     certificate |-> Base64(r.Certificate), privateKey |-> Base64(r.PrivateKey),
     issuerCertificate |-> Base64(r.IssuerCertificate)]

\* json.Unmarshal(bytes, &resource)
UnmarshalResource(doc) ==
    IF doc.kind = "json" /\ doc.type = "Resource"
    THEN [ok |-> TRUE,
          res |-> [Domain |-> doc.domain, CertURL |-> doc.certUrl,
                   Certificate |-> UnBase64(doc.certificate),
                   PrivateKey |-> UnBase64(doc.privateKey),
                   IssuerCertificate |-> UnBase64(doc.issuerCertificate)]]
    ELSE [ok |-> FALSE, res |-> Nil]

\* The two entries SaveResource writes.
RawEntry(r) ==
    [kind |-> "raw", cert |-> r.Certificate, key |-> r.PrivateKey,
     issuer |-> r.IssuerCertificate]
MetaEntry(jsonBytes) == [kind |-> "meta", data |-> jsonBytes]

NoCertCall ==
    [op |-> "none", domain |-> "", ext |-> "", outcome |-> "none", msg |-> "",
     res |-> Nil, bytes |-> "", err |-> "", exists |-> FALSE,
     getOk |-> TRUE, readOk |-> TRUE, rawOk |-> TRUE, metaOk |-> TRUE, about |-> ""]

CertInit ==
    /\ lastSave = [d \in CertDomains |-> Nil]
    /\ certRet = NoCertCall

\* The test of the metadata write's error, which ends SaveResource.
MetaWriteUnchecked(metaOk) == FALSE

MetaWriteFailed(metaOk) == ~metaOk

\* SaveResource(certRes): the raw entry, then the metadata entry; log.Fatalf
\* on the first failure, with a message that names the entry ("Certificate"
\* or "CertResource") and the domain (field about).
SaveResource(certRes, getOk, rawOk, metaOk) ==
    LET domain == certRes.Domain
        v1 == Write(vault, CertsPath(domain), RawEntry(certRes))
        v2 == Write(v1, JsonPath(domain), MetaEntry(MarshalResource(certRes)))
        out == IF ~getOk
               THEN [outcome |-> "fatal", msg |-> "vault: client", about |-> "",
                     v |-> vault]
               ELSE IF ~rawOk
               THEN [outcome |-> "fatal", msg |-> "Unable to save Certificate for domain",
                     about |-> domain, v |-> vault]
               ELSE IF MetaWriteFailed(metaOk)
               THEN [outcome |-> "fatal", msg |-> "Unable to save CertResource for domain",
                     about |-> domain, v |-> v1]
               ELSE [outcome |-> "returned", msg |-> "", about |-> "",
                     v |-> IF metaOk THEN v2 ELSE v1]
    IN  /\ vault' = out.v
        /\ lastSave' = [lastSave EXCEPT ![domain] =
                           [kind |-> "save", res |-> certRes, outcome |-> out.outcome]]
        /\ certRet' = [NoCertCall EXCEPT !.op = "SaveResource", !.domain = domain,
                                         !.outcome = out.outcome, !.msg = out.msg,
                                         !.about = out.about,
                                         !.getOk = getOk, !.rawOk = rawOk,
                                         !.metaOk = metaOk]
        /\ UNCHANGED <<responderVars, acctVars>>

\* The outcome of ReadResource(domain). A nil response (no entry) is not
\* checked before resp.Data is read: a nil pointer dereference, which panics.
ReadResourceResult(domain, getOk, readOk) ==
    LET resp == Read(vault, JsonPath(domain))
    IN  IF ~getOk THEN [outcome |-> "fatal", msg |-> "vault: client", res |-> Nil]
        ELSE IF ~readOk
        THEN [outcome |-> "fatal", msg |-> "Error while loading the meta data for domain",
              res |-> Nil]
        ELSE IF resp = Nil
        THEN [outcome |-> "panic", msg |-> "nil pointer dereference", res |-> Nil]
        ELSE IF resp.kind # "meta"
        THEN [outcome |-> "panic", msg |-> "interface conversion", res |-> Nil]
        ELSE IF ~UnmarshalResource(resp.data).ok
        THEN [outcome |-> "fatal", msg |-> "Error while marshaling the meta data for domain",
              res |-> Nil]
        ELSE [outcome |-> "returned", msg |-> "", res |-> UnmarshalResource(resp.data).res]

ReadResource(domain, getOk, readOk) ==
    LET out == ReadResourceResult(domain, getOk, readOk)
    IN  /\ certRet' = [NoCertCall EXCEPT !.op = "ReadResource", !.domain = domain,
                                         !.outcome = out.outcome, !.msg = out.msg,
                                         !.res = out.res, !.getOk = getOk,
                                         !.readOk = readOk]
        /\ UNCHANGED <<responderVars, vault, lastSave, acctVars>>

\* ExistsFile(domain, extension): probes the metadata entry.
ExistsFile(domain, extension, getOk, readOk) ==
    LET resp == Read(vault, JsonPath(domain))
        out == IF ~getOk THEN [outcome |-> "fatal", msg |-> "vault: client", b |-> FALSE]
               ELSE IF ~readOk \/ resp = Nil
               THEN [outcome |-> "returned", msg |-> "", b |-> FALSE]
               ELSE [outcome |-> "returned", msg |-> "", b |-> TRUE]
    IN  /\ certRet' = [NoCertCall EXCEPT !.op = "ExistsFile", !.domain = domain,
                                         !.ext = extension, !.outcome = out.outcome,
                                         !.msg = out.msg, !.exists = out.b,
                                         !.getOk = getOk, !.readOk = readOk]
        /\ UNCHANGED <<responderVars, vault, lastSave, acctVars>>

\* ReadFile(domain, extension): ReadResource first, then the switch.
ReadFile(domain, extension, getOk, readOk) ==
    LET r == ReadResourceResult(domain, getOk, readOk)
        out == IF r.outcome # "returned"
               THEN [outcome |-> r.outcome, msg |-> r.msg, bytes |-> "", err |-> ""]
               ELSE IF extension = ".crt"
               THEN [outcome |-> "returned", msg |-> "", bytes |-> r.res.Certificate,
                     err |-> ""]
               ELSE IF extension = ".key"
               THEN [outcome |-> "returned", msg |-> "", bytes |-> r.res.PrivateKey,
                     err |-> ""]
               ELSE [outcome |-> "returned", msg |-> "", bytes |-> "",
                     err |-> "can't find certificate"]
    IN  /\ certRet' = [NoCertCall EXCEPT !.op = "ReadFile", !.domain = domain,
                                         !.ext = extension, !.outcome = out.outcome,
                                         !.msg = out.msg, !.bytes = out.bytes,
                                         !.err = out.err, !.getOk = getOk,
                                         !.readOk = readOk]
        /\ UNCHANGED <<responderVars, vault, lastSave, acctVars>>

\* A call runs up to its first failing store call, so its inputs are the call
\* that fails, if any.
CertNext ==
    \/ \E r \in Resources, f \in {"none", "get", "raw", "meta"} :
          SaveResource(r, f # "get", f # "raw", f # "meta")
    \/ \E d \in CertDomains, f \in {"none", "get", "read"} :
          ReadResource(d, f # "get", f # "read")
    \/ \E d \in CertDomains, e \in Extensions, f \in {"none", "get", "read"} :
          ExistsFile(d, e, f # "get", f # "read")
    \/ \E d \in CertDomains, e \in Extensions, f \in {"none", "get", "read"} :
          ReadFile(d, e, f # "get", f # "read")

(***************************************************************************)
(*                             ACCOUNT STORE                               *)
(***************************************************************************)

\* crypto.PrivateKey: the algorithm and the key material.
Algs == {"RSA", "EC"}
Keys == [alg : Algs, mat : 1..MaxKeyMaterial]
KeyTypes == {"RSA2048", "EC256", "bogus"}

\* certcrypto.GeneratePrivateKey(keyType): the algorithm of a key type; an
\* unknown key type is an error. The material is the generator's choice.
AlgOf(keyType) ==
    IF keyType = "RSA2048" THEN "RSA" ELSE IF keyType = "EC256" THEN "EC" ELSE "invalid"

\* certcrypto.PEMBlock(key) and pem.EncodeToMemory: the DER bytes of the key
\* under the label of its algorithm.
PEMBlock(key) ==
    IF key.alg = "RSA"
    THEN [kind |-> "pem", Type |-> "RSA PRIVATE KEY",
          Bytes |-> [fmt |-> "PKCS1", mat |-> key.mat]]
    ELSE [kind |-> "pem", Type |-> "EC PRIVATE KEY",
          Bytes |-> [fmt |-> "SEC1", mat |-> key.mat]]

\* Key blobs that are no output of PEMBlock: a PKCS#8 block, and bytes that
\* hold no PEM block at all.
Pkcs8Blob == [kind |-> "pem", Type |-> "PRIVATE KEY", Bytes |-> [fmt |-> "PKCS8", mat |-> 1]]
NoPemBlob == [kind |-> "text"]

\* x509.ParsePKCS1PrivateKey / x509.ParseECPrivateKey
ParsePKCS1PrivateKey(der) ==
    IF der.fmt = "PKCS1"
    THEN [outcome |-> "ok", key |-> [alg |-> "RSA", mat |-> der.mat], err |-> ""]
    ELSE [outcome |-> "err", key |-> Nil, err |-> "x509: failed to parse private key"]
ParseECPrivateKey(der) ==
    IF der.fmt = "SEC1"
    THEN [outcome |-> "ok", key |-> [alg |-> "EC", mat |-> der.mat], err |-> ""]
    ELSE [outcome |-> "err", key |-> Nil, err |-> "x509: failed to parse EC private key"]

\* The key blobs loadPrivateKey may be given: a PEM block of any label over
\* any encoding, or bytes without a PEM block.
KeyBlockTypes == {"RSA PRIVATE KEY", "EC PRIVATE KEY", "PRIVATE KEY", "CERTIFICATE"}
DerFormats == {"PKCS1", "SEC1", "PKCS8"}
KeyBlobs ==
    [kind : {"pem"}, Type : KeyBlockTypes,
     Bytes : [fmt : DerFormats, mat : 1..MaxKeyMaterial]] \cup {NoPemBlob}

\* loadPrivateKey without its final return of an error.
loadPrivateKeyNoDefault(keyBytes) ==
    IF keyBytes.kind # "pem"
    THEN [outcome |-> "panic", key |-> Nil, err |-> "nil pointer dereference"]
    ELSE IF keyBytes.Type = "RSA PRIVATE KEY" THEN ParsePKCS1PrivateKey(keyBytes.Bytes)
    ELSE IF keyBytes.Type = "EC PRIVATE KEY" THEN ParseECPrivateKey(keyBytes.Bytes)
    ELSE [outcome |-> "ok", key |-> Nil, err |-> ""]

\* loadPrivateKey(keyBytes): pem.Decode returns a nil block for bytes without
\* a PEM block, and keyBlock.Type then dereferences nil.
loadPrivateKey(keyBytes) ==
    IF keyBytes.kind # "pem"
    THEN [outcome |-> "panic", key |-> Nil, err |-> "nil pointer dereference"]
    ELSE IF keyBytes.Type = "RSA PRIVATE KEY" THEN ParsePKCS1PrivateKey(keyBytes.Bytes)
    ELSE IF keyBytes.Type = "EC PRIVATE KEY" THEN ParseECPrivateKey(keyBytes.Bytes)
    ELSE [outcome |-> "err", key |-> Nil, err |-> "unknown private key type"]

\* registration.Resource, as far as the store reads it: Body.Status and URI.
StoredRegistrations ==
    {Nil, [kind |-> "reg", Status |-> "", URI |-> <<"acct">>],
          [kind |-> "reg", Status |-> "valid", URI |-> <<"acct", "old">>]}

\* Account: the e-mail and the registration; the key is not part of the record.
Accounts == [Email : Emails, Registration : StoredRegistrations]

\* json.MarshalIndent(account, "", "\t"): the unexported key is left out.
MarshalAccount(account) ==
    [kind |-> "json", type |-> "Account", email |-> account.Email,
     registration |-> account.Registration]

\* json.Unmarshal(bytes, &account)
UnmarshalAccount(doc) ==
    IF doc.kind = "json" /\ doc.type = "Account"
    THEN [ok |-> TRUE, account |-> [Email |-> doc.email, Registration |-> doc.registration]]
    ELSE [ok |-> FALSE, account |-> Nil]

\* The entry both Save and GetPrivateKey write: {"data": {"data": <string>}}.
DataEntry(str) == [kind |-> "data", data |-> str]

\* The authority: the keys it holds an account for.
AuthorityKnows(key) == key.mat = 1

\* client.Registration.ResolveAccountByKey(): the account the authority holds
\* for the key, or an error.
ResolveAccountByKey(key, resolveOk) ==
    IF resolveOk /\ AuthorityKnows(key)
    THEN [ok |-> TRUE,
          reg |-> [kind |-> "reg", Status |-> "valid", URI |-> <<"acct", key.alg>>]]
    ELSE [ok |-> FALSE, reg |-> Nil]

\* tryRecoverRegistration(ctx, privateKey)
tryRecoverRegistration(privateKey, newClientOk, resolveOk) ==
    IF ~newClientOk THEN [ok |-> FALSE, reg |-> Nil]
    ELSE ResolveAccountByKey(privateKey, resolveOk)

NoAcctCall ==
    [op |-> "none", outcome |-> "none", msg |-> "", err |-> "", exists |-> FALSE,
     account |-> Nil, stored |-> Nil, key |-> Nil, calls |-> <<>>,
     generated |-> FALSE, getOk |-> TRUE, readOk |-> TRUE, writeOk |-> TRUE]

AcctInit ==
    /\ acctRet = NoAcctCall
    /\ keyCalls = <<>>

\* ExistsAccountFilePath()
ExistsAccountFilePath(getOk, readOk) ==
    LET resp == Read(vault, AccountPath(UserID))
        out == IF ~getOk THEN [outcome |-> "fatal", msg |-> "vault: client", b |-> FALSE]
               ELSE IF ~readOk \/ resp = Nil
               THEN [outcome |-> "returned", msg |-> "", b |-> FALSE]
               ELSE [outcome |-> "returned", msg |-> "", b |-> TRUE]
    IN  /\ acctRet' = [NoAcctCall EXCEPT !.op = "ExistsAccountFilePath",
                                         !.outcome = out.outcome, !.msg = out.msg,
                                         !.exists = out.b, !.getOk = getOk,
                                         !.readOk = readOk]
        /\ UNCHANGED <<responderVars, vault, certVars, keyCalls>>

\* The path Save writes: the account's own e-mail, not s.userID.
SavePath(account) == AccountPath(account.Email)

\* The outcome of Save(account) on store v.
SaveResult(v, account, getOk, writeOk) ==
    IF ~getOk THEN [outcome |-> "fatal", msg |-> "vault: client", err |-> "", v |-> v]
    ELSE IF ~writeOk THEN [outcome |-> "returned", msg |-> "", err |-> "write failed", v |-> v]
    ELSE [outcome |-> "returned", msg |-> "", err |-> "",
          v |-> Write(v, SavePath(account), DataEntry(MarshalAccount(account)))]

\* Save(account)
Save(account, getOk, writeOk) ==
    LET out == SaveResult(vault, account, getOk, writeOk)
    IN  /\ vault' = out.v
        /\ acctRet' = [NoAcctCall EXCEPT !.op = "Save", !.outcome = out.outcome,
                                         !.msg = out.msg, !.err = out.err,
                                         !.account = account, !.calls = <<"Write">>,
                                         !.getOk = getOk, !.writeOk = writeOk]
        /\ UNCHANGED <<responderVars, certVars, keyCalls>>

\* The test LoadAccount makes of the decoded registration.
NeedsRecoveryNilOnly(account) == account.Registration = Nil

NeedsRecovery(account) ==
    \/ account.Registration = Nil
    \/ account.Registration.Status = ""

\* The account LoadAccount hands to Save after a recovery.
RecoveredNotAssigned(account, reg) == account

Recovered(account, reg) == [account EXCEPT !.Registration = reg]

\* The outcome of LoadAccount(privateKey).
LoadAccountResult(privateKey, getOk, readOk, newClientOk, resolveOk, saveGetOk, saveWriteOk) ==
    LET resp == Read(vault, AccountPath(UserID))
        none == [outcome |-> "fatal", msg |-> "", account |-> Nil, stored |-> Nil,
                 calls |-> <<>>, v |-> vault]
    IN  IF ~getOk THEN [none EXCEPT !.msg = "vault: client"]
        ELSE IF ~readOk
        THEN [none EXCEPT !.msg = "Error while loading account", !.calls = <<"Read">>]
        ELSE IF resp = Nil
        THEN [none EXCEPT !.outcome = "panic", !.msg = "nil pointer dereference",
                          !.calls = <<"Read">>]
        ELSE IF resp.kind # "data"
        THEN [none EXCEPT !.outcome = "panic", !.msg = "interface conversion",
                          !.calls = <<"Read">>]
        ELSE IF ~UnmarshalAccount(resp.data).ok
        THEN [none EXCEPT !.msg = "Could not parse file for account", !.calls = <<"Read">>]
        ELSE
        LET account == UnmarshalAccount(resp.data).account
        IN  IF ~NeedsRecovery(account)
            THEN [none EXCEPT !.outcome = "returned", !.account = account,
                              !.stored = account, !.calls = <<"Read">>]
            ELSE
            LET rec == tryRecoverRegistration(privateKey, newClientOk, resolveOk)
            IN  IF ~rec.ok
                THEN [none EXCEPT !.msg = "Could not load account", !.stored = account,
                                  !.calls = <<"Read", "tryRecoverRegistration">>]
                ELSE
                LET healed == Recovered(account, rec.reg)
                    saved == SaveResult(vault, healed, saveGetOk, saveWriteOk)
                    calls == <<"Read", "tryRecoverRegistration", "Save">>
                IN  IF saved.outcome = "fatal"
                    THEN [none EXCEPT !.msg = saved.msg, !.stored = account,
                                      !.calls = calls]
                    ELSE IF saved.err # ""
                    THEN [none EXCEPT !.msg = "Could not save account",
                                      !.stored = account, !.calls = calls]
                    ELSE [none EXCEPT !.outcome = "returned", !.account = healed,
                                      !.stored = account, !.calls = calls,
                                      !.v = saved.v]

\* LoadAccount(privateKey)
LoadAccount(privateKey, getOk, readOk, newClientOk, resolveOk, saveGetOk, saveWriteOk) ==
    LET out == LoadAccountResult(privateKey, getOk, readOk, newClientOk, resolveOk,
                                 saveGetOk, saveWriteOk)
    IN  /\ vault' = out.v
        /\ acctRet' = [NoAcctCall EXCEPT !.op = "LoadAccount", !.outcome = out.outcome,
                                         !.msg = out.msg, !.account = out.account,
                                         !.stored = out.stored, !.key = privateKey,
                                         !.calls = out.calls, !.getOk = getOk,
                                         !.readOk = readOk]
        /\ UNCHANGED <<responderVars, certVars, keyCalls>>

\* The test GetPrivateKey makes of the response: no key is stored.
NoKeyStoredAlways(resp) == TRUE

NoKeyStored(resp) == resp = Nil

\* Whether GetPrivateKey goes on after its write of a generated key.
WriteAcceptedAlways(writeOk) == TRUE

WriteAccepted(writeOk) == writeOk

\* The outcome of GetPrivateKey(keyType); mat is the material a generation yields.
GetPrivateKeyResult(keyType, mat, getOk, readOk, writeOk) ==
    LET resp == Read(vault, PrivateKeyPath(UserID))
        none == [outcome |-> "fatal", msg |-> "", key |-> Nil, generated |-> FALSE,
                 calls |-> <<>>, v |-> vault]
    IN  IF ~getOk THEN [none EXCEPT !.msg = "vault: client"]
        ELSE IF ~readOk
        THEN [none EXCEPT !.msg = "No key found for account", !.calls = <<"Read">>]
        ELSE IF NoKeyStored(resp)
        THEN IF AlgOf(keyType) = "invalid"
             THEN [none EXCEPT !.msg = "Could not generate RSA private account key",
                               !.calls = <<"Read", "GeneratePrivateKey">>]
             ELSE
             LET privateKey == [alg |-> AlgOf(keyType), mat |-> mat]
                 calls == <<"Read", "GeneratePrivateKey", "Write">>
             IN  IF ~WriteAccepted(writeOk)
                 THEN [none EXCEPT !.msg = "Could not write private account key",
                                   !.generated = TRUE, !.calls = calls]
                 ELSE [none EXCEPT !.outcome = "returned", !.key = privateKey,
                                   !.generated = TRUE, !.calls = calls,
                                   !.v = IF writeOk
                                         THEN Write(vault, PrivateKeyPath(UserID),
                                                    DataEntry(PEMBlock(privateKey)))
                                         ELSE vault]
        ELSE IF resp.kind # "data"
        THEN [none EXCEPT !.outcome = "panic", !.msg = "interface conversion",
                          !.calls = <<"Read">>]
        ELSE
        LET loaded == loadPrivateKey(resp.data)
        IN  IF loaded.outcome = "panic"
            THEN [none EXCEPT !.outcome = "panic", !.msg = loaded.err,
                              !.calls = <<"Read">>]
            ELSE IF loaded.outcome = "err"
            THEN [none EXCEPT !.msg = "Could not load RSA private key from file",
                              !.calls = <<"Read">>]
            ELSE [none EXCEPT !.outcome = "returned", !.key = loaded.key,
                              !.calls = <<"Read">>]

\* GetPrivateKey(keyType)
GetPrivateKey(keyType, mat, getOk, readOk, writeOk) ==
    LET out == GetPrivateKeyResult(keyType, mat, getOk, readOk, writeOk)
    IN  /\ Len(keyCalls) < MaxKeyCalls
        /\ vault' = out.v
        /\ acctRet' = [NoAcctCall EXCEPT !.op = "GetPrivateKey", !.outcome = out.outcome,
                                         !.msg = out.msg, !.key = out.key,
                                         !.calls = out.calls,
                                         !.generated = out.generated, !.getOk = getOk,
                                         !.readOk = readOk, !.writeOk = writeOk]
        /\ keyCalls' = IF out.outcome = "returned"
                       THEN Append(keyCalls, [key |-> out.key, generated |-> out.generated,
                                              calls |-> out.calls])
                       ELSE keyCalls
        /\ UNCHANGED <<responderVars, certVars>>

\* loadPrivateKey applied to the key blob the store holds for the user.
loadPrivateKeyCall ==
    LET resp == Read(vault, PrivateKeyPath(UserID))
    IN  /\ resp # Nil
        /\ resp.kind = "data"
        /\ LET loaded == loadPrivateKey(resp.data)
           IN  acctRet' = [NoAcctCall EXCEPT
                              !.op = "loadPrivateKey",
                              !.outcome = IF loaded.outcome = "panic" THEN "panic"
                                          ELSE "returned",
                              !.msg = IF loaded.outcome = "panic" THEN loaded.err ELSE "",
                              !.err = IF loaded.outcome = "panic" THEN "" ELSE loaded.err,
                              !.key = loaded.key]
        /\ UNCHANGED <<responderVars, vault, certVars, keyCalls>>

\* As in CertNext, the inputs of a call are the store or authority call that
\* fails, if any.
AcctNext ==
    \/ \E f \in {"none", "get", "read"} : ExistsAccountFilePath(f # "get", f # "read")
    \/ \E a \in Accounts, f \in {"none", "get", "write"} :
          Save(a, f # "get", f # "write")
    \/ \E key \in Keys,
          f \in {"none", "get", "read", "newClient", "resolve", "saveGet", "saveWrite"} :
          LoadAccount(key, f # "get", f # "read", f # "newClient", f # "resolve",
                      f # "saveGet", f # "saveWrite")
    \/ \E kt \in KeyTypes, m \in 1..MaxKeyMaterial, f \in {"none", "get", "read", "write"} :
          GetPrivateKey(kt, m, f # "get", f # "read", f # "write")

(***************************************************************************)
(*                            SPECIFICATIONS                               *)
(***************************************************************************)

ResponderIdle == NewProviderServer /\ port = "5002"

\* The responder alone.
InitResponder == NewProviderServer /\ vault = EmptyVault /\ CertInit /\ AcctInit
SpecResponder == InitResponder /\ [][ResponderNext]_vars

\* The responder with the scheduling Go gives the goroutines Present spawns:
\* a goroutine that can run its registration does run it.
SpecResponderFair ==
    /\ InitResponder
    /\ [][ResponderNext]_vars
    /\ WF_vars(\E i \in 1..MaxPresents : serve(i))

\* The Certificate Store alone.
InitCerts == ResponderIdle /\ vault = EmptyVault /\ CertInit /\ AcctInit
SpecCerts == InitCerts /\ [][CertNext]_vars

\* The Account Store alone.
InitAccounts == ResponderIdle /\ vault = EmptyVault /\ CertInit /\ AcctInit
SpecAccounts == InitAccounts /\ [][AcctNext]_vars

\* The account store as LoadAccount may find it: the entry of the user
\* identifier holds an account record that was put there before this
\* process started, whatever e-mail it carries.
InitAccountsStored ==
    /\ ResponderIdle /\ CertInit /\ AcctInit
    /\ \E a \in Accounts :
          vault = Write(EmptyVault, AccountPath(UserID), DataEntry(MarshalAccount(a)))
SpecAccountsStored == InitAccountsStored /\ [][AcctNext]_vars

\* Key loading alone: the user's key entry holds any key blob, or none.
KeysNext ==
    \/ loadPrivateKeyCall
    \/ \E kt \in KeyTypes, m \in 1..MaxKeyMaterial, f \in {"none", "get", "read", "write"} :
          GetPrivateKey(kt, m, f # "get", f # "read", f # "write")

InitKeys ==
    /\ ResponderIdle /\ CertInit /\ AcctInit
    /\ \/ vault = EmptyVault
       \/ \E b \in KeyBlobs :
             vault = Write(EmptyVault, PrivateKeyPath(UserID), DataEntry(b))
SpecKeys == InitKeys /\ [][KeysNext]_vars

\* The whole system.
Init == InitResponder
Next == ResponderNext \/ CertNext \/ AcctNext \/ KeysNext
Spec == Init /\ [][Next]_vars

(***************************************************************************)
(*                               CLAIMS                                    *)
(***************************************************************************)

\* C1: once a CleanUp of a responder built by NewProviderServer has returned,
\* the listener is closed and the serve goroutine has exited, and from then
\* on no connection is accepted and no request that came after the return is
\* answered (connections accepted before the close are C12's matter).
C1_CleanUpStopsServing ==
    [][cleanUps' > 0 =>
         /\ listener' = "closed"
         /\ servePc' = "exited"
         /\ cleanUps > 0 => conns' \subseteq conns
         /\ \A c \in conns' : ~c.late
         /\ response'.kind = "response" => ~response'.late]_vars

\* C1's case: after a CleanUp returned, a client's connection was refused.
C1_Witness ==
    /\ cleanUps > 0
    /\ response.kind = "refused"
    /\ response.late

\* C2: a response of a registered token route has status 200 and carries the
\* session's authorization key exactly when the request's Host starts with
\* the session's domain and its method is GET; otherwise it carries the
\* diagnostic body "TEST". So the key never goes to a Host that does not
\* start with the session's domain.
C2_KeyOnlyForMatchingHostAndGet ==
    (response.kind = "response" /\ response.route = "token") =>
        /\ response.status = 200
        /\ response.body = response.keyAuth
              <=> (HasPrefix(response.host, response.domain) /\ response.method = "GET")
        /\ response.body # response.keyAuth => response.body = "TEST"
        /\ ~HasPrefix(response.host, response.domain) => response.body # response.keyAuth

\* C2's case: the session of example.com answers Host other.org with "TEST".
C2_Witness ==
    /\ response.kind = "response"
    /\ response.route = "token"
    /\ response.domain = ExampleCom
    /\ response.host = OtherOrg
    /\ response.method = "GET"
    /\ response.body = "TEST"

C4_NeverSavedReadIsFatal ==
    (/\ certRet.op \in {"ExistsFile", "ReadResource"}
     /\ lastSave[certRet.domain] = Nil
     /\ certRet.getOk
     /\ certRet.readOk) =>
        /\ certRet.op = "ExistsFile" => (certRet.outcome = "returned" /\ ~certRet.exists)
        /\ certRet.op = "ReadResource" => certRet.outcome = "fatal"

\* C5: a LoadAccount that returns hands out an account whose registration is
\* present with a non-empty status; a LoadAccount that does not return
\* normally ends the process and hands out no account.
C5_LoadedAccountIsRegistered ==
    acctRet.op = "LoadAccount" =>
        /\ acctRet.outcome \in {"returned", "fatal", "panic"}
        /\ acctRet.outcome = "returned" =>
              /\ acctRet.account # Nil
              /\ acctRet.account.Registration # Nil
              /\ acctRet.account.Registration.Status # ""
        /\ acctRet.outcome # "returned" => acctRet.account = Nil

\* C5's case: a load that went through registration recovery returned.
C5_Witness ==
    /\ acctRet.op = "LoadAccount"
    /\ acctRet.outcome = "returned"
    /\ acctRet.stored.Registration # Nil
    /\ acctRet.stored.Registration.Status = ""
    /\ acctRet.calls = <<"Read", "tryRecoverRegistration", "Save">>

\* The store and authority calls of a load after its Read.
AfterRead(calls) == IF calls = <<>> THEN <<>> ELSE Tail(calls)

\* C6: a load that returns an account whose stored registration was absent
\* or of empty status made exactly one recovery call and then exactly one
\* Save, and the record that Save wrote holds the recovered registration; a
\* load of a stored registration with a status makes neither call. No load,
\* aborted or not, makes a second recovery call or a Save without recovery.
C6_OneRecoveryThenOneSave ==
    acctRet.op = "LoadAccount" =>
        /\ AfterRead(acctRet.calls) \in
              {<<>>, <<"tryRecoverRegistration">>, <<"tryRecoverRegistration", "Save">>}
        /\ (acctRet.stored # Nil /\ acctRet.stored.Registration # Nil
                /\ acctRet.stored.Registration.Status # "")
              => AfterRead(acctRet.calls) = <<>>
        /\ (acctRet.outcome = "returned"
                /\ (acctRet.stored.Registration = Nil
                       \/ acctRet.stored.Registration.Status = ""))
              => /\ AfterRead(acctRet.calls) = <<"tryRecoverRegistration", "Save">>
                 /\ vault[AccountPath(acctRet.account.Email)] # Nil
                 /\ LET written == UnmarshalAccount(
                                       vault[AccountPath(acctRet.account.Email)].data)
                    IN  /\ written.ok
                        /\ written.account.Email = acctRet.stored.Email
                        /\ written.account.Registration
                              = ResolveAccountByKey(acctRet.key, TRUE).reg

\* C6's case: a load of a record without registration recovered and saved.
C6_Witness ==
    /\ acctRet.op = "LoadAccount"
    /\ acctRet.outcome = "returned"
    /\ acctRet.stored.Registration = Nil
    /\ acctRet.calls = <<"Read", "tryRecoverRegistration", "Save">>

\* C7: starting without a stored key, every GetPrivateKey that returns after
\* the first returns the first one's key, and neither generates nor writes.
C7_SecondCallReturnsSameKey ==
    \A i \in 1..Len(keyCalls) :
        /\ i = 1 => keyCalls[i].generated
        /\ i > 1 =>
              /\ keyCalls[i].key = keyCalls[1].key
              /\ ~keyCalls[i].generated
              /\ keyCalls[i].calls = <<"Read">>

\* C7's case: two calls returned, the first of which generated the key.
C7_Witness ==
    /\ Len(keyCalls) >= 2
    /\ keyCalls[1].generated
    /\ keyCalls[2].key = keyCalls[1].key

\* C8: a GetPrivateKey that returns a key leaves the encoding of that key in
\* the store's private-key entry; a failed read or a failed write of a
\* generated key ends fatally with no key, and a failed read neither
\* generates nor writes.
C8_ReturnedKeyIsPersisted ==
    acctRet.op = "GetPrivateKey" =>
        /\ acctRet.outcome = "returned" =>
              /\ acctRet.key # Nil
              /\ vault[PrivateKeyPath(UserID)] = DataEntry(PEMBlock(acctRet.key))
        /\ acctRet.outcome # "returned" => acctRet.key = Nil
        /\ (acctRet.getOk /\ ~acctRet.readOk) =>
              /\ acctRet.outcome = "fatal"
              /\ ~acctRet.generated
              /\ acctRet.calls = <<"Read">>
        /\ (acctRet.generated /\ ~acctRet.writeOk) => acctRet.outcome = "fatal"

\* C8's case: a freshly generated key was written and returned.
C8_Witness ==
    /\ acctRet.op = "GetPrivateKey"
    /\ acctRet.outcome = "returned"
    /\ acctRet.generated
    /\ acctRet.calls = <<"Read", "GeneratePrivateKey", "Write">>

\* C9 (as claimed): the existence probe always returns a boolean, which is
\* true exactly when the store was reached and read and holds the record.
C9_ExistsProbeNeverFatal ==
    acctRet.op = "ExistsAccountFilePath" =>
        /\ acctRet.outcome = "returned"
        /\ acctRet.exists <=> (/\ acctRet.getOk
                               /\ acctRet.readOk
                               /\ vault[AccountPath(UserID)] # Nil)

\* C10 (as claimed): with the store answering, ReadFile of a kind other than
\* .crt and .key returns the unsupported-kind error, for a saved and for a
\* never saved domain alike.
C10_UnsupportedKindIsAnError ==
    (/\ certRet.op = "ReadFile"
     /\ certRet.ext \notin {".crt", ".key"}
     /\ certRet.getOk
     /\ certRet.readOk) =>
        /\ certRet.outcome = "returned"
        /\ certRet.err = "can't find certificate"

\* C11 (as claimed): GetAddress is the address the listener is bound on, and
\* a responder built with an empty port is bound on port 80.
C11_GetAddressIsBoundAddress ==
    /\ GetAddress.port = boundPort
    /\ boundPort \in {"80", "5002"}

\* C12 (as claimed): once a CleanUp has returned, no accepted connection is
\* still waiting for, or running, its request handler.
C12_NoHandlerAfterCleanUp ==
    cleanUps > 0 => conns = {}

\* C16 (as claimed): a CleanUp that waits on s.done is never left without
\* the send that releases it: while a caller waits, the serve goroutine has
\* still to send. (A caller that waits after the goroutine's only send
\* waits forever.)
C16_CleanUpNeverBlocksForever ==
    driverPc = "waitDone" => servePc \in {"serving", "sending"}

\* C17 (as claimed): no registration fails, whatever tokens the presented
\* sessions share, and a response of a token route carries the key of the
\* presented session of that token and domain when Host and method match.
C17_EveryRegistrationCompletes ==
    ~crashed

\* C18 (as claimed): the listener never reopens and the serve goroutine
\* never goes back, and once a CleanUp has returned the responder accepts no
\* connection and writes no response, whatever is presented afterwards.
C18_NoServingAfterCleanUp ==
    [][/\ listener = "closed" => listener' = "closed"
       /\ servePc = "sending" => servePc' # "serving"
       /\ servePc = "exited" => servePc' = "exited"
       /\ cleanUps > 0 =>
             /\ conns' \subseteq conns
             /\ response'.kind = "response" => response' = response]_vars

\* C13: a SaveResource that returns normally had both writes succeed and
\* leaves both entries of its domain present, holding the saved resource; a
\* SaveResource whose raw write fails dies naming the certificate and the
\* domain, one whose metadata write fails dies naming the metadata
\* (CertResource) and the domain.
C13_SaveAbortsNamingTheFailedEntry ==
    certRet.op = "SaveResource" =>
        LET d == certRet.domain
            saved == lastSave[d].res
        IN  /\ certRet.outcome \in {"returned", "fatal"}
            /\ certRet.outcome = "returned" =>
                  /\ certRet.getOk /\ certRet.rawOk /\ certRet.metaOk
                  /\ Read(vault, CertsPath(d)) = RawEntry(saved)
                  /\ Read(vault, JsonPath(d)) = MetaEntry(MarshalResource(saved))
            /\ (certRet.getOk /\ ~certRet.rawOk) =>
                  /\ certRet.outcome = "fatal"
                  /\ certRet.msg = "Unable to save Certificate for domain"
                  /\ certRet.about = d
            /\ (certRet.getOk /\ certRet.rawOk /\ ~certRet.metaOk) =>
                  /\ certRet.outcome = "fatal"
                  /\ certRet.msg = "Unable to save CertResource for domain"
                  /\ certRet.about = d

\* C13 witness: a save died on its metadata write, naming the metadata
\* entry and the domain, after its raw entry was written.
C13_Witness ==
    /\ certRet.op = "SaveResource"
    /\ certRet.outcome = "fatal"
    /\ certRet.msg = "Unable to save CertResource for domain"
    /\ certRet.about = "d1"
    /\ Read(vault, CertsPath("d1")) = RawEntry(lastSave["d1"].res)

\* C20 (as claimed): in every store state a domain's raw entry and
\* metadata entry are both absent, or both present and written from one
\* saved resource.
C20_EntriesOfOneSave ==
    \A d \in CertDomains :
        LET raw == Read(vault, CertsPath(d))
            meta == Read(vault, JsonPath(d))
        IN  \/ raw = Nil /\ meta = Nil
            \/ \E r \in Resources :
                  /\ raw = RawEntry(r)
                  /\ meta = MetaEntry(MarshalResource(r))

\* C19 (as claimed): after a LoadAccount that returned, the entry LoadAccount
\* reads for the user identifier holds a registration that needs no
\* recovery (so the next LoadAccount neither recovers nor saves), and when
\* the load recovered, that entry holds the account it returned.
C19_RecoveryIsDurable ==
    (acctRet.op = "LoadAccount" /\ acctRet.outcome = "returned") =>
        LET resp == Read(vault, AccountPath(UserID))
        IN  /\ resp # Nil
            /\ resp.kind = "data"
            /\ UnmarshalAccount(resp.data).ok
            /\ ~NeedsRecovery(UnmarshalAccount(resp.data).account)
            /\ (\E i \in 1..Len(acctRet.calls) : acctRet.calls[i] = "Save") =>
                  resp = DataEntry(MarshalAccount(acctRet.account))

PendingSessions == {pending[i] : i \in 1..Len(pending)}

\* C14 (as claimed): Present returns with the registration still to run (the
\* session is pending); under fair scheduling of the registration goroutine
\* the route of every pending session comes to be registered in the running
\* process, unless the responder is cleaned up; and a request handled while its path has no route is answered
\* by the "/" handler with "OK", never with an authorization key.
C14_RouteEventuallyLive ==
    /\ \A s \in Sessions :
          (s \in PendingSessions) ~>
              \/ /\ [path |-> ChallengePath(s.token), domain |-> s.domain,
                      keyAuth |-> s.keyAuth] \in mux
                 /\ ~crashed
              \/ listener = "closed"
    /\ [][\A c \in conns :
             (c \notin conns' /\ ~Registered(c.req.path) /\ response' # response) =>
                 /\ response'.route = "/"
                 /\ response'.body = "OK"
                 /\ \A s \in Sessions : response'.body # s.keyAuth]_vars

====
